---- MODULE Spec2Model ----
(***************************************************************************)
(* The two static-generation entry points of the blog: the list view       *)
(* (getStaticProps / getPosts / getPostContents) and the single-post view  *)
(* (getStaticProps with the extraction and the flattener inlined).  The    *)
(* Notion workspace (pages of the database, child blocks of each page) is  *)
(* the environment; every API call may succeed or fail.                    *)
(***************************************************************************)
EXTENDS Integers, Sequences, FiniteSets, TLC

VARIABLES
    view,          \* which page module runs: "list" or "single"
    notionPages,   \* environment: the pages the database query yields, in order
    notionBlocks,  \* environment: page id -> child blocks of that page
    pc,            \* position of getStaticProps
    database,      \* the awaited query response (its results array)
    queries,       \* number of databases.query calls issued
    posts,         \* list view: the posts array built by getPosts
    reqs,          \* the blocks.children.list calls issued, in issue order
    props,         \* the payload getStaticProps returned
    error          \* why getStaticProps rejected

vars == <<view, notionPages, notionBlocks, pc, database, queries, posts, reqs, props, error>>

\* ---------------------------------------------------------------- bounds
MaxPages == 2      \* pages the database query yields
MaxBlocks == 2     \* child blocks in the workspace, over all pages

\* ---------------------------------------------------------------- values
null == "null"
undefined == "undefined"

PageId == <<"p1", "p2", "p3", "p4">>
CreatedTime == <<"c1", "c2", "c3", "c4">>
EditedTime == <<"e1", "e2", "e3", "e4">>

RT(s) == [plain_text |-> s]

\* ------------------------------------------------ the shapes of the input
EmptyBag == [k \in {} |-> null]

NameValues ==
    {[type |-> "title", title |-> r] : r \in {<<>>, <<RT("T1"), RT("T2")>>}}
    \cup {[type |-> "rich_text", rich_text |-> <<RT("T1")>>]}

SlugValues ==
    {[type |-> "rich_text", rich_text |-> r] : r \in {<<>>, <<RT("S1"), RT("S2")>>}}
    \cup {[type |-> "title", title |-> <<RT("S1")>>]}

NameBags == {EmptyBag} \cup {("Name" :> v) : v \in NameValues}
SlugBags == {EmptyBag} \cup {("Slug" :> v) : v \in SlugValues}

PropertyBags == {n @@ s : n \in NameBags, s \in SlugBags}

\* A page is a full page object (with a properties bag) or a partial one.
FullPage(i, bag) ==
    [id |-> PageId[i], created_time |-> CreatedTime[i],
     last_edited_time |-> EditedTime[i], properties |-> bag]
PartialPage(i) == [id |-> PageId[i]]

\* What the page at one position of the results is: partial, or full with a bag.
PageShapes(bags) ==
    {[partial |-> TRUE, bag |-> EmptyBag]} \cup {[partial |-> FALSE, bag |-> g] : g \in bags}

MkPage(i, shape) == IF shape.partial THEN PartialPage(i) ELSE FullPage(i, shape.bag)

RichTextArrays == {<<>>, <<RT("a"), RT("b")>>}

TextTypes == {"paragraph", "heading_2", "heading_3", "quote"}
RecognizedTypes == TextTypes \cup {"code"}

\* Every block carries the payload of its own type, under the key named by it.
TextBlocks ==
    {("type" :> t) @@ (t :> [rich_text |-> r]) : t \in TextTypes, r \in RichTextArrays}
CodeBlocks ==
    {[type |-> "code", code |-> [rich_text |-> <<>>, language |-> "py"]],
     [type |-> "code", code |-> [rich_text |-> <<RT("a"), RT("b")>>, language |-> "js"]]}
OtherBlocks == {[type |-> "image", image |-> [caption |-> <<>>]]}
PartialBlocks == {[object |-> "block"]}

Blocks == TextBlocks \cup CodeBlocks \cup OtherBlocks \cup PartialBlocks

RECURSIVE SumTo(_, _)
SumTo(f, n) == IF n = 0 THEN 0 ELSE f[n] + SumTo(f, n - 1)

\* Child blocks for n pages: the lengths sum to at most MaxBlocks, and the
\* lists are cut out of one flat sequence of blocks.
BlockLengths(n) == {l \in [1..n -> 0..MaxBlocks] : SumTo(l, n) <= MaxBlocks}

Children(n, lens, flat) ==
    [id \in {PageId[i] : i \in 1..n} |->
        LET i == CHOOSE j \in 1..n : PageId[j] = id
        IN  SubSeq(flat, SumTo(lens, i - 1) + 1, SumTo(lens, i))]

NoChildren(n) == [id \in {PageId[i] : i \in 1..n} |-> <<>>]

\* Workspaces that vary the page properties (and hold no blocks).
FieldWorld(n) ==
    \E sh \in [1..n -> PageShapes(PropertyBags)] :
        /\ notionPages = [i \in 1..n |-> MkPage(i, sh[i])]
        /\ notionBlocks = NoChildren(n)

\* Workspaces that vary the blocks (of pages with an empty bag, or partial).
BlockWorld(n) ==
    \E sh \in [1..n -> PageShapes({EmptyBag})] :
        \E lens \in BlockLengths(n) :
            \E flat \in [1..SumTo(lens, n) -> Blocks] :
                /\ notionPages = [i \in 1..n |-> MkPage(i, sh[i])]
                /\ notionBlocks = Children(n, lens, flat)

\* ------------------------------------------------------- field extractors
\* arr[0]?.plain_text ?? null
firstPlainText(arr) == IF Len(arr) > 0 THEN arr[1].plain_text ELSE null

\* Mutant of getTitle: the last segment is read instead of the first.
getTitle_lastSegment(page) ==
    IF "Name" \in DOMAIN page.properties /\ page.properties["Name"].type = "title"
       /\ Len(page.properties["Name"].title) > 0
    THEN page.properties["Name"].title[Len(page.properties["Name"].title)].plain_text
    ELSE null

getTitle(page) ==
    IF "Name" \in DOMAIN page.properties /\ page.properties["Name"].type = "title"
    THEN firstPlainText(page.properties["Name"].title)
    ELSE null

getSlug(page) ==
    IF "Slug" \in DOMAIN page.properties /\ page.properties["Slug"].type = "rich_text"
    THEN firstPlainText(page.properties["Slug"].rich_text)
    ELSE null

\* The single-post view repeats both extractions inline.
inlineTitle(page) ==
    IF "Name" \in DOMAIN page.properties /\ page.properties["Name"].type = "title"
    THEN firstPlainText(page.properties["Name"].title)
    ELSE null

inlineSlug(page) ==
    IF "Slug" \in DOMAIN page.properties /\ page.properties["Slug"].type = "rich_text"
    THEN firstPlainText(page.properties["Slug"].rich_text)
    ELSE null

\* ------------------------------------------------------- block flattener
\* The running state of one forEach: the contents pushed so far, and whether
\* a TypeError ended the loop.
NoContents == [contents |-> <<>>, threw |-> FALSE]

\* contents.push({type: t, text: block[t].rich_text[0]?.plain_text ?? null});
\* reading .rich_text of a payload the block does not carry is a TypeError.
pushText(acc, block, t) ==
    IF acc.threw THEN acc
    ELSE IF t \notin DOMAIN block THEN [acc EXCEPT !.threw = TRUE]
    ELSE [acc EXCEPT !.contents =
            Append(@, [type |-> t, text |-> firstPlainText(block[t].rich_text)])]

\* Mutant of pushCode: the language is not carried over.
pushCode_noLanguage(acc, block) ==
    IF acc.threw THEN acc
    ELSE IF "code" \notin DOMAIN block THEN [acc EXCEPT !.threw = TRUE]
    ELSE [acc EXCEPT !.contents =
            Append(@, [type |-> "code",
                       text |-> firstPlainText(block["code"].rich_text),
                       language |-> null])]

pushCode(acc, block) ==
    IF acc.threw THEN acc
    ELSE IF "code" \notin DOMAIN block THEN [acc EXCEPT !.threw = TRUE]
    ELSE [acc EXCEPT !.contents =
            Append(@, [type |-> "code",
                       text |-> firstPlainText(block["code"].rich_text),
                       language |-> block["code"].language])]

\* Mutant of listSwitch: the fall-through reads the payloads with ?. and so
\* pushes the quote and code variants for one block instead of throwing.
listSwitch_lenient(acc, block) ==
    LET soft(a, t) ==
            IF t \in DOMAIN block THEN pushText(a, block, t)
            ELSE [a EXCEPT !.contents = Append(@, [type |-> t, text |-> null])]
        softCode(a) ==
            IF "code" \in DOMAIN block THEN pushCode(a, block)
            ELSE [a EXCEPT !.contents =
                    Append(@, [type |-> "code", text |-> null, language |-> null])]
    IN  IF "type" \notin DOMAIN block THEN acc
        ELSE CASE block.type = "paragraph" -> pushText(acc, block, "paragraph")
               [] block.type = "heading_2" ->
                    softCode(soft(pushText(acc, block, "heading_2"), "quote"))
               [] block.type = "quote" -> softCode(pushText(acc, block, "quote"))
               [] block.type = "code" -> pushCode(acc, block)
               [] OTHER -> acc

\* List view: the callback of blocks.results.forEach.  Only the paragraph
\* case ends in break: heading_2 runs on into quote and code, quote into code.
listSwitch(acc, block) ==
    IF "type" \notin DOMAIN block THEN acc
    ELSE CASE block.type = "paragraph" -> pushText(acc, block, "paragraph")
           [] block.type = "heading_2" ->
                pushCode(pushText(pushText(acc, block, "heading_2"), block, "quote"), block)
           [] block.type = "quote" -> pushCode(pushText(acc, block, "quote"), block)
           [] block.type = "code" -> pushCode(acc, block)
           [] OTHER -> acc

\* Single-post view: the same callback with heading_3 and with every break.
singleSwitch(acc, block) ==
    IF "type" \notin DOMAIN block THEN acc
    ELSE CASE block.type = "paragraph" -> pushText(acc, block, "paragraph")
           [] block.type = "heading_2" -> pushText(acc, block, "heading_2")
           [] block.type = "heading_3" -> pushText(acc, block, "heading_3")
           [] block.type = "quote" -> pushText(acc, block, "quote")
           [] block.type = "code" -> pushCode(acc, block)
           [] OTHER -> acc

RECURSIVE listForEach(_, _, _)
listForEach(blocks, k, acc) ==
    IF k > Len(blocks) \/ acc.threw THEN acc
    ELSE listForEach(blocks, k + 1, listSwitch(acc, blocks[k]))

RECURSIVE singleForEach(_, _, _)
singleForEach(blocks, k, acc) ==
    IF k > Len(blocks) \/ acc.threw THEN acc
    ELSE singleForEach(blocks, k + 1, singleSwitch(acc, blocks[k]))

\* Mutant of getPostContents: a page without blocks gets a placeholder paragraph.
getPostContents_placeholder(blocks) ==
    IF blocks = <<>>
    THEN [contents |-> <<[type |-> "paragraph", text |-> null]>>, threw |-> FALSE]
    ELSE listForEach(blocks, 1, NoContents)

\* List view: what getPostContents does with the awaited block list.
getPostContents(blocks) == listForEach(blocks, 1, NoContents)

\* Single-post view: the inlined flattener.
singleContents(blocks) == singleForEach(blocks, 1, NoContents)

\* ------------------------------------------------------------- the posts
newPost(page, title, slug) ==
    [id |-> page.id, title |-> title, slug |-> slug,
     createdTs |-> page.created_time, lastEditedTs |-> page.last_edited_time,
     contents |-> <<>>]

\* The loop of getPosts: one Post per result that has a properties bag.
RECURSIVE buildPosts(_, _, _)
buildPosts(results, k, acc) ==
    IF k > Len(results) THEN acc
    ELSE IF "properties" \in DOMAIN results[k]
         THEN buildPosts(results, k + 1,
                  Append(acc, newPost(results[k], getTitle(results[k]), getSlug(results[k]))))
         ELSE buildPosts(results, k + 1, acc)

\* One blocks.children.list call: its argument, its state and what it gave.
Request(id) ==
    [block_id |-> id, state |-> "pending", reason |-> "none",
     blocks |-> <<>>, contents |-> <<>>]

\* The children the service holds for a block id (none for an unknown id).
childrenOf(id) == IF id \in DOMAIN notionBlocks THEN notionBlocks[id] ELSE <<>>

\* Mutant of PromiseAll: settles like Promise.allSettled, a failed call
\* counting as an empty contents list.
PromiseAll_allSettled(rs) ==
    IF \A i \in DOMAIN rs : rs[i].state # "pending"
    THEN [state |-> "fulfilled", reason |-> "none",
          value |-> [i \in DOMAIN rs |->
                        IF rs[i].state = "fulfilled" THEN rs[i].contents ELSE <<>>]]
    ELSE [state |-> "pending", reason |-> "none", value |-> <<>>]

\* Promise.all over the getPostContents promises: fulfilled with the values in
\* argument order once all are fulfilled, rejected as soon as one is rejected.
PromiseAll(rs) ==
    IF \E i \in DOMAIN rs : rs[i].state = "rejected"
    THEN [state |-> "rejected",
          reason |-> rs[CHOOSE i \in DOMAIN rs : rs[i].state = "rejected"].reason,
          value |-> <<>>]
    ELSE IF \A i \in DOMAIN rs : rs[i].state = "fulfilled"
    THEN [state |-> "fulfilled", reason |-> "none",
          value |-> [i \in DOMAIN rs |-> rs[i].contents]]
    ELSE [state |-> "pending", reason |-> "none", value |-> <<>>]

\* Mutant of assignContents: the lists are handed out in reverse order.
assignContents_reversed(ps, contentsList) ==
    [i \in DOMAIN ps |-> [ps[i] EXCEPT !.contents = contentsList[Len(ps) + 1 - i]]]

\* posts.forEach((post, index) => { post.contents = contentsList[index]; })
assignContents(ps, contentsList) ==
    [i \in DOMAIN ps |-> [ps[i] EXCEPT !.contents = contentsList[i]]]

NoProps == [kind |-> "none"]

\* Single-post view: everything after the two awaits.
singleProps(results, blocks) ==
    IF Len(results) = 0 THEN [kind |-> "post", isNull |-> TRUE]
    ELSE IF "properties" \notin DOMAIN results[1]
    THEN [kind |-> "post", isNull |-> FALSE,
          post |-> [id |-> results[1].id, title |-> null, slug |-> null,
                    createdTs |-> null, lastEditedTs |-> null, contents |-> <<>>]]
    ELSE [kind |-> "post", isNull |-> FALSE,
          post |-> [newPost(results[1], inlineTitle(results[1]), inlineSlug(results[1]))
                        EXCEPT !.contents = singleContents(blocks).contents]]

\* ------------------------------------------------------------------ Init
Init ==
    /\ view \in {"list", "single"}
    /\ \E n \in 0..MaxPages : FieldWorld(n) \/ BlockWorld(n)
    /\ pc = "start"
    /\ database = <<>>
    /\ queries = 0
    /\ posts = <<>>
    /\ reqs = <<>>
    /\ props = NoProps
    /\ error = "none"

\* --------------------------------------------------------------- actions
\* Both views: notion.databases.query is called and awaited.
databasesQuery ==
    /\ pc = "start"
    /\ pc' = "query"
    /\ queries' = queries + 1
    /\ UNCHANGED <<view, notionPages, notionBlocks, database, posts, reqs, props, error>>

\* Both views: the query fails; nothing catches it.
queryRejected ==
    /\ pc = "query"
    /\ pc' = "rejected"
    /\ error' = "query"
    /\ UNCHANGED <<view, notionPages, notionBlocks, database, queries, posts, reqs, props>>

\* List view: getPosts resumes with the results and builds the posts.
getPosts ==
    /\ view = "list"
    /\ pc = "query"
    /\ database' = notionPages
    /\ posts' = buildPosts(notionPages, 1, <<>>)
    /\ pc' = "posts"
    /\ UNCHANGED <<view, notionPages, notionBlocks, queries, reqs, props, error>>

\* List view: posts.map(getPostContents) issues one call per post, all at once.
fanOut ==
    /\ view = "list"
    /\ pc = "posts"
    /\ reqs' = [i \in DOMAIN posts |-> Request(posts[i].id)]
    /\ pc' = "all"
    /\ UNCHANGED <<view, notionPages, notionBlocks, database, queries, posts, props, error>>

\* List view: one call answers; getPostContents flattens the blocks, and its
\* promise is fulfilled with the contents or rejected by a TypeError.
getPostContentsResumes ==
    /\ view = "list"
    /\ \E i \in DOMAIN reqs :
          /\ reqs[i].state = "pending"
          /\ LET blocks == childrenOf(reqs[i].block_id)
                 acc == getPostContents(blocks)
             IN  reqs' = [reqs EXCEPT ![i] =
                      [@ EXCEPT !.blocks = blocks,
                                !.contents = acc.contents,
                                !.state = IF acc.threw THEN "rejected" ELSE "fulfilled",
                                !.reason = IF acc.threw THEN "TypeError" ELSE "none"]]
    /\ UNCHANGED <<view, notionPages, notionBlocks, pc, database, queries, posts, props, error>>

\* Either view: one blocks.children.list call fails.
childrenListFails ==
    /\ \E i \in DOMAIN reqs :
          /\ reqs[i].state = "pending"
          /\ reqs' = [reqs EXCEPT ![i] = [@ EXCEPT !.state = "rejected", !.reason = "api"]]
    /\ UNCHANGED <<view, notionPages, notionBlocks, pc, database, queries, posts, props, error>>

\* List view: Promise.all is fulfilled; the contents are assigned and the
\* props returned.
assignAndReturn ==
    /\ view = "list"
    /\ pc = "all"
    /\ PromiseAll(reqs).state = "fulfilled"
    /\ posts' = assignContents(posts, PromiseAll(reqs).value)
    /\ props' = [kind |-> "posts", posts |-> posts', revalidate |-> 60]
    /\ pc' = "returned"
    /\ UNCHANGED <<view, notionPages, notionBlocks, database, queries, reqs, error>>

\* List view: Promise.all is rejected and getStaticProps with it.
allRejected ==
    /\ view = "list"
    /\ pc = "all"
    /\ PromiseAll(reqs).state = "rejected"
    /\ pc' = "rejected"
    /\ error' = PromiseAll(reqs).reason
    /\ UNCHANGED <<view, notionPages, notionBlocks, database, queries, posts, reqs, props>>

\* Single-post view: the query answers and blocks.children.list is called
\* with database.results[0]?.id, before the page is looked at.
singleQueryResumes ==
    /\ view = "single"
    /\ pc = "query"
    /\ database' = notionPages
    /\ reqs' = <<Request(IF Len(notionPages) > 0 THEN notionPages[1].id ELSE undefined)>>
    /\ pc' = "blocks"
    /\ UNCHANGED <<view, notionPages, notionBlocks, queries, posts, props, error>>

\* Single-post view: the call answers; the rest of getStaticProps runs.
singleBlocksResume ==
    /\ view = "single"
    /\ pc = "blocks"
    /\ reqs[1].state = "pending"
    /\ LET blocks == childrenOf(reqs[1].block_id)
           acc == singleContents(blocks)
           flattened == Len(database) > 0 /\ "properties" \in DOMAIN database[1]
           threw == flattened /\ acc.threw
       IN  /\ reqs' = [reqs EXCEPT ![1] =
                    [@ EXCEPT !.blocks = blocks,
                              !.contents = IF flattened THEN acc.contents ELSE <<>>,
                              !.state = "fulfilled"]]
           /\ IF threw
              THEN pc' = "rejected" /\ error' = "TypeError" /\ props' = props
              ELSE pc' = "returned" /\ error' = error
                   /\ props' = singleProps(database, blocks)
    /\ UNCHANGED <<view, notionPages, notionBlocks, database, queries, posts>>

\* Single-post view: the awaited call failed.
singleBlocksRejected ==
    /\ view = "single"
    /\ pc = "blocks"
    /\ reqs[1].state = "rejected"
    /\ pc' = "rejected"
    /\ error' = reqs[1].reason
    /\ UNCHANGED <<view, notionPages, notionBlocks, database, queries, posts, reqs, props>>

Next ==
    \/ databasesQuery
    \/ queryRejected
    \/ getPosts
    \/ fanOut
    \/ getPostContentsResumes
    \/ childrenListFails
    \/ assignAndReturn
    \/ allRejected
    \/ singleQueryResumes
    \/ singleBlocksResume
    \/ singleBlocksRejected

Spec == Init /\ [][Next]_vars

\* ====================================================== the properties
\* Helpers of the statements below.
IsCode(x) == "type" \in DOMAIN x /\ x.type = "code"
IsRecognized(b) == "type" \in DOMAIN b /\ b.type \in RecognizedTypes
IsFallThrough(b) == "type" \in DOMAIN b /\ b.type \in {"heading_2", "quote"}
HasBag(page) == "properties" \in DOMAIN page

\* The Content a recognized block stands for.
ContentOf(b) ==
    IF b.type = "code"
    THEN [type |-> "code", text |-> firstPlainText(b.code.rich_text),
          language |-> b.code.language]
    ELSE [type |-> b.type, text |-> firstPlainText(b[b.type].rich_text)]

\* The input restricted to the recognized blocks, one Content for each.
Restricted(blocks) ==
    LET kept == SelectSeq(blocks, IsRecognized)
    IN  [k \in 1..Len(kept) |-> ContentOf(kept[k])]

\* A call whose answer has been flattened (it did not fail in the API).
ListRan(r) == r.state # "pending" /\ r.reason # "api"
SingleFlattened ==
    view = "single" /\ pc = "returned" /\ Len(database) > 0 /\ HasBag(database[1])
QueryAnswered == pc \in {"posts", "all", "blocks", "returned"} \/ (pc = "rejected" /\ error # "query")
ApiFailed == error \in {"query", "api"} \/ \E i \in DOMAIN reqs : reqs[i].reason = "api"

PageById(id) == database[CHOOSE k \in DOMAIN database : database[k].id = id]

\* C1 (as claimed): in both views the contents are exactly the input
\* restricted to paragraph, heading_2, heading_3, quote and code blocks, one
\* Content per such block with its type tag, in input order.
C1_ContentsAreRestrictedInput ==
    /\ view = "list" =>
          \A i \in DOMAIN reqs :
              ListRan(reqs[i]) =>
                  /\ reqs[i].state = "fulfilled"
                  /\ reqs[i].contents = Restricted(reqs[i].blocks)
    /\ SingleFlattened => props.post.contents = Restricted(reqs[1].blocks)

\* The title the claim C2 describes.
ClaimedTitle(page) ==
    IF /\ "Name" \in DOMAIN page.properties
       /\ page.properties["Name"].type = "title"
       /\ page.properties["Name"].title # <<>>
    THEN Head(page.properties["Name"].title).plain_text
    ELSE null

\* C2: title extraction gives the plain_text of the first segment of a "Name"
\* property of type title with a non-empty array, and null otherwise; it
\* never raises, so every page with a bag gets its Post.
C2_TitleExtraction ==
    /\ (view = "list" /\ QueryAnswered) =>
          /\ Len(posts) = Len(SelectSeq(database, HasBag))
          /\ \A k \in DOMAIN posts : posts[k].title = ClaimedTitle(PageById(posts[k].id))
    /\ SingleFlattened => props.post.title = ClaimedTitle(database[1])
    /\ error = "TypeError" => \E i \in DOMAIN reqs : reqs[i].reason = "TypeError"

C2_Witness ==
    /\ view = "list"
    /\ Len(posts) = 2
    /\ posts[1].title = "T1"
    /\ posts[2].title = null
    /\ "Name" \in DOMAIN PageById(posts[2].id).properties

LanguagesOf(xs) ==
    LET cs == SelectSeq(xs, IsCode)
    IN  [k \in 1..Len(cs) |-> IF "code" \in DOMAIN cs[k] THEN cs[k].code.language
                                                         ELSE cs[k].language]

LacksBoth(page) ==
    /\ HasBag(page)
    /\ ~("Name" \in DOMAIN page.properties /\ page.properties["Name"].type = "title")
    /\ ~("Slug" \in DOMAIN page.properties /\ page.properties["Slug"].type = "rich_text")

NullFields(post, page) ==
    /\ post.title = null
    /\ post.slug = null
    /\ post.id = page.id
    /\ post.createdTs = page.created_time
    /\ post.lastEditedTs = page.last_edited_time

\* C4 (as claimed): for a page with a bag but neither a title-typed "Name" nor
\* a rich_text-typed "Slug", getStaticProps of either view raises no error (no
\* API call having failed) and the Post has null title and slug and the
\* page's id and timestamps.
C4_MissingFieldsNoError ==
    /\ (view = "list" /\ QueryAnswered /\ ~ApiFailed) =>
          \A k \in DOMAIN posts :
              LacksBoth(PageById(posts[k].id)) =>
                  /\ NullFields(posts[k], PageById(posts[k].id))
                  /\ pc # "rejected"
                  /\ \A i \in DOMAIN reqs : reqs[i].state # "rejected"
    /\ (view = "single" /\ QueryAnswered /\ ~ApiFailed
            /\ Len(database) > 0 /\ LacksBoth(database[1])) =>
          /\ pc # "rejected"
          /\ pc = "returned" => NullFields(props.post, database[1])

\* C5 (as claimed): the flattener of either view never raises; it runs over
\* all blocks, and a recognized block with an empty rich-text array yields a
\* Content with text = null.
C5_FlattenerNeverRaises ==
    /\ error # "TypeError"
    /\ \A i \in DOMAIN reqs :
          /\ reqs[i].reason # "TypeError"
          /\ (reqs[i].state = "fulfilled" /\ (view = "list" \/ SingleFlattened)) =>
                \A b \in {reqs[i].blocks[j] : j \in DOMAIN reqs[i].blocks} :
                    (IsRecognized(b) /\ b[b.type].rich_text = <<>>) =>
                        \E k \in DOMAIN reqs[i].contents :
                            /\ reqs[i].contents[k].type = b.type
                            /\ reqs[i].contents[k].text = null

FirstFallThrough(blocks) ==
    CHOOSE k \in DOMAIN blocks :
        IsFallThrough(blocks[k]) /\ \A j \in 1..(k - 1) : ~IsFallThrough(blocks[j])

C7_EmptyInEmptyOut ==
    /\ \A i \in DOMAIN reqs :
          (reqs[i].state = "fulfilled" /\ reqs[i].blocks = <<>>) =>
              /\ reqs[i].contents = <<>>
              /\ (view = "list" /\ pc = "returned") => props.posts[i].contents = <<>>
              /\ SingleFlattened => props.post.contents = <<>>
    /\ (view = "list" /\ QueryAnswered /\ database = <<>>) =>
          /\ reqs = <<>>
          /\ pc # "rejected"
          /\ pc = "returned" => props.posts = <<>>

C7_Witness ==
    /\ view = "list"
    /\ pc = "returned"
    /\ Len(reqs) = 2
    /\ reqs[1].blocks = <<>>
    /\ props.posts[1].contents = <<>>
    /\ props.posts[2].contents # <<>>

\* C8: in the list view a failed query or a failed block-children call makes
\* getStaticProps reject: no props are returned, neither partial nor with
\* empty contents for the failed post, and no call is issued twice.
C8_FailurePropagates ==
    view = "list" =>
        /\ (error = "query" \/ \E i \in DOMAIN reqs : reqs[i].state = "rejected") =>
              /\ pc # "returned"
              /\ props = NoProps
              /\ \A k \in DOMAIN posts : posts[k].contents = <<>>
        /\ (pc = "all" /\ \E i \in DOMAIN reqs : reqs[i].state = "rejected") =>
              ENABLED allRejected /\ ~ENABLED assignAndReturn
        /\ pc = "rejected" => error # "none"
        /\ queries <= 1
        /\ Len(reqs) <= Len(posts)
        /\ \A i, j \in DOMAIN reqs : reqs[i].block_id = reqs[j].block_id => i = j

C8_Witness ==
    /\ view = "list"
    /\ pc = "rejected"
    /\ error = "api"
    /\ Len(reqs) = 2
    /\ reqs[1].state = "fulfilled"
    /\ reqs[2].state = "rejected"
    /\ props = NoProps

\* C9: in the list view the calls of all posts are in flight together and
\* answer in any order; posts keep the order of the query results without the
\* partial pages, contents stay empty until every call has answered, and the
\* returned posts[i].contents is the flattening of the blocks of posts[i].id.
C9_ContentsMatchPosts ==
    view = "list" =>
        /\ QueryAnswered =>
              LET full == SelectSeq(database, HasBag)
              IN  /\ Len(posts) = Len(full)
                  /\ \A k \in DOMAIN posts : posts[k].id = full[k].id
        /\ pc = "all" => Len(reqs) = Len(posts)
        /\ pc # "returned" => \A k \in DOMAIN posts : posts[k].contents = <<>>
        /\ pc = "returned" =>
              /\ props.posts = posts
              /\ Len(reqs) = Len(posts)
              /\ \A i \in DOMAIN posts :
                    /\ reqs[i].state = "fulfilled"
                    /\ reqs[i].block_id = posts[i].id
                    /\ reqs[i].blocks = notionBlocks[posts[i].id]
                    /\ posts[i].contents = reqs[i].contents
                    /\ posts[i].contents = getPostContents(notionBlocks[posts[i].id]).contents

C9_Witness ==
    /\ view = "list"
    /\ pc = "returned"
    /\ Len(props.posts) = 2
    /\ props.posts[1].contents = <<[type |-> "paragraph", text |-> "a"]>>
    /\ props.posts[2].contents = <<[type |-> "code", text |-> null, language |-> "py"]>>

\* C10 (as claimed): in the single-post view the block-children call is only
\* issued for a page that exists: with no pages the props carry post = null
\* and no call was made with an undefined block id; with a partial first page
\* the Post has the page's id, null fields and empty contents.
C10_NoCallWithoutPage ==
    view = "single" =>
        /\ \A i \in DOMAIN reqs : reqs[i].block_id # undefined
        /\ (QueryAnswered /\ database = <<>>) => reqs = <<>>
        /\ (pc = "returned" /\ database = <<>>) => props.isNull
        /\ (pc = "returned" /\ Len(database) > 0 /\ ~HasBag(database[1])) =>
              props.post = [id |-> database[1].id, title |-> null, slug |-> null,
                            createdTs |-> null, lastEditedTs |-> null, contents |-> <<>>]

====
